---- MODULE Spec2Model ----
(***************************************************************************)
(* Model of src/plugins/core/NestedLexicalEditor.tsx: a nested (child)     *)
(* Lexical editor embedded in a decorator node of a parent editor.  The    *)
(* child imports a slice of the owning mdast node, and writes the slice    *)
(* back into the parent on blur; backspace in an empty child removes the   *)
(* owning node from the parent.                                            *)
(***************************************************************************)
EXTENDS Integers, Sequences, FiniteSets, TLC

VARIABLES
  parent,      \* parent editor state: [keys, mdast, selection]
  mdastNode,   \* the mdastNode of the NestedEditorsContext seen by the component
  mounted,     \* the NestedLexicalEditor component is mounted
  block,       \* the `block` prop
  editorRoot,  \* top-level lexical nodes of the child editor ($getRoot())
  ev           \* observable outcome of the last step

vars == <<parent, mdastNode, mounted, block, editorRoot, ev>>

----------------------------------------------------------------------------
(* Bounds *)

MaxContentLen == 2   \* longest phrasing content array handed in by the host
MaxBlocks == 1       \* longest block content array handed in by the host
MaxTop == 2          \* most top-level nodes an edit may grow the child to
MaxTyped == 1        \* most text nodes typed into the child and not yet deleted

----------------------------------------------------------------------------
(* mdast and lexical trees *)

Text(v) == [type |-> "text", value |-> v, children |-> <<>>]

Paragraph(c) == [type |-> "paragraph", value |-> "", children |-> c]

Directive(c) == [type |-> "containerDirective", value |-> "", children |-> c]

NullNode == [type |-> "null", value |-> "", children |-> <<>>]

LText(v) == [ltype |-> "text", text |-> v, kids |-> <<>>]

LParagraph(k) == [ltype |-> "paragraph", text |-> "", kids |-> k]

SeqsUpTo(S, n) == UNION {[1..k -> S] : k \in 0..n}

Texts == {"a"}

TypedText == "x"

PhrasingContents == SeqsUpTo({Text(v) : v \in Texts}, MaxContentLen)

BlockContents ==
  SeqsUpTo({Paragraph(<<>>), Paragraph(<<Text("a")>>)}, MaxBlocks)

Contents == PhrasingContents \cup BlockContents

OwnerKey == "owner"

NullKey == "null"

Layouts == {<<"owner", "next">>, <<"prev", "owner">>}

----------------------------------------------------------------------------
(* Import / export visitors (importMarkdownToLexical, exportMarkdownFromLexical) *)

RECURSIVE ImportNode(_)
ImportNode(n) ==
  [ltype |-> n.type, text |-> n.value,
   kids |-> [i \in 1..Len(n.children) |-> ImportNode(n.children[i])]]

RECURSIVE ExportNode(_)
ExportNode(l) ==
  [type |-> l.ltype, value |-> l.text,
   children |-> [i \in 1..Len(l.kids) |-> ExportNode(l.kids[i])]]

\* importMdastTreeToLexical({root, mdastRoot}): appends the imported children to root
importMdastTreeToLexical(root, mdastRoot) ==
  root \o [i \in 1..Len(mdastRoot.children) |-> ImportNode(mdastRoot.children[i])]

\* exportLexicalTreeToMdast({root}): an mdast root holding the exported children
exportLexicalTreeToMdast(root) ==
  [type |-> "root", value |-> "",
   children |-> [i \in 1..Len(root) |-> ExportNode(root[i])]]

----------------------------------------------------------------------------
(* Context and hooks *)

Undefined == [kind |-> "undefined", mdastNode |-> NullNode, lexicalKey |-> NullKey]

ContextValue(node) == [kind |-> "context", mdastNode |-> node, lexicalKey |-> OwnerKey]

\* useNestedEditorContext without the `if (!context)` check
useNestedEditorContext_noThrow(context) == [error |-> "none", value |-> context]

useNestedEditorContext(context) ==
  IF context = Undefined
    THEN [error |-> "Error", value |-> Undefined]
    ELSE [error |-> "none", value |-> context]

\* the hook itself: reads the context, then returns the updater closure
useMdastNodeUpdater(context) == useNestedEditorContext(context)

\* the hook itself: reads the context, then returns the removal closure
useLexicalNodeRemove(context) == useNestedEditorContext(context)

\* props of the documented usage: getContent={node => node.children}
getContent(node) == node.children

\* getUpdatedMdastNode={(node, children) => ({ ...node, children })}
getUpdatedMdastNode(node, children) == [node EXCEPT !.children = children]

----------------------------------------------------------------------------
(* Parent editor updates *)

getNodeByKey(p, key) ==
  IF \E i \in 1..Len(p.keys) : p.keys[i] = key THEN key ELSE NullKey

IndexOf(keys, key) == CHOOSE i \in 1..Len(keys) : keys[i] = key

\* node.selectNext(): the next sibling, or the parent element when there is none
selectNext(p, key) ==
  LET i == IndexOf(p.keys, key)
  IN  IF i < Len(p.keys) THEN p.keys[i + 1] ELSE "root"

\* node.remove()
remove(keys, key) == SelectSeq(keys, LAMBDA k : k # key)

\* updateMdastNode without the `if (currentNode)` guard
updateMdastNode_unguarded(p, key, node) ==
  [parent |-> [p EXCEPT !.mdast = node],
   tags |-> {"history-push"},
   error |-> IF getNodeByKey(p, key) = NullKey THEN "TypeError" ELSE "none"]

\* the closure returned by useMdastNodeUpdater
updateMdastNode(p, key, node) ==
  LET currentNode == getNodeByKey(p, key)
  IN  [parent |-> IF currentNode # NullKey THEN [p EXCEPT !.mdast = node] ELSE p,
       tags |-> {"history-push"},
       error |-> "none"]

\* the closure returned by useLexicalNodeRemove; a throw inside update() is
\* handed to the editor's onError and the pending state is dropped
removeNode(p, key) ==
  LET node == getNodeByKey(p, key)
  IN  IF node = NullKey
        THEN [parent |-> p, error |-> "TypeError"]
        ELSE [parent |-> [keys |-> remove(p.keys, node),
                          mdast |-> NullNode,
                          selection |-> selectNext(p, node)],
              error |-> "none"]

\* the decorator re-renders with the node's current mdast while the node exists
Rerender(p, old) == IF getNodeByKey(p, OwnerKey) # NullKey THEN p.mdast ELSE old

----------------------------------------------------------------------------
(* Import effect *)

\* the import effect without $getRoot().clear()
clear_keep(root) == root

\* $getRoot().clear()
clear(root) == <<>>

\* theContent without the empty-list substitution of block mode
theContent_noSubst(content, isBlock) ==
  IF isBlock THEN content ELSE <<Paragraph(content)>>

theContent(content, isBlock) ==
  IF isBlock
    THEN IF Len(content) = 0 THEN <<Paragraph(<<>>)>> ELSE content
    ELSE <<Paragraph(content)>>

ImportEffect(root, content, isBlock) ==
  importMdastTreeToLexical(clear(root),
                           [type |-> "root", value |-> "",
                            children |-> theContent(content, isBlock)])

----------------------------------------------------------------------------
(* Command handlers *)

\* block ? mdast.children : mdast.children[0].children
ExportDefined(mdast, isBlock) == isBlock \/ Len(mdast.children) > 0

\* the export without the inline unwrapping
BlurContent_noUnwrap(mdast, isBlock) == mdast.children

\* the export taking the last top-level node instead of the first
BlurContent_last(mdast, isBlock) ==
  IF isBlock THEN mdast.children ELSE mdast.children[Len(mdast.children)].children

BlurContent(mdast, isBlock) ==
  IF isBlock THEN mdast.children ELSE mdast.children[1].children

\* a blur handler that hands back the content it was given instead of the export
BlurHandler_stale(root, node, isBlock) ==
  [error |-> "none", invocations |-> <<getUpdatedMdastNode(node, getContent(node))>>]

\* BLUR_COMMAND listener: the list of updater invocations it makes
BlurHandler(root, node, isBlock) ==
  LET mdast == exportLexicalTreeToMdast(root)
  IN  IF ExportDefined(mdast, isBlock)
        THEN [error |-> "none",
              invocations |-> <<getUpdatedMdastNode(node, BlurContent(mdast, isBlock))>>]
        ELSE [error |-> "TypeError", invocations |-> <<>>]

RECURSIVE TextContent(_)
TextContent(kids) ==
  IF kids = <<>> THEN ""
  ELSE (IF Head(kids).ltype = "text" THEN Head(kids).text ELSE TextContent(Head(kids).kids))
       \o TextContent(Tail(kids))

\* rendered text of a top-level node: an empty block renders as a line break
NodeInnerText(l) == IF TextContent(<<l>>) = "" THEN "\n" ELSE TextContent(<<l>>)

RECURSIVE innerText(_)
innerText(root) ==
  IF root = <<>> THEN ""
  ELSE IF Len(root) = 1 THEN NodeInnerText(root[1])
  ELSE NodeInnerText(root[1]) \o "\n\n" \o innerText(Tail(root))

\* the backspace test written against the empty string
BackspaceRemoves_emptyString(text) == text = ""

\* the backspace test dropped
BackspaceRemoves_always(text) == TRUE

\* KEY_BACKSPACE_COMMAND listener: does it take the removal branch
BackspaceRemoves(text) == text = "\n"

\* default backspace of the rich-text engine, run when the listener returns false
DefaultBackspace(root) ==
  IF root = <<>> THEN root
  ELSE LET n == Len(root)
           last == root[n]
       IN  IF last.kids # <<>>
             THEN [root EXCEPT ![n].kids = SubSeq(last.kids, 1, Len(last.kids) - 1)]
             ELSE IF n > 1 THEN SubSeq(root, 1, n - 1) ELSE root

----------------------------------------------------------------------------
(* Step outcomes *)

Outcome(op, error, handled, invocations, tags, ctx, ret) ==
  [op |-> op, error |-> error, handled |-> handled,
   invocations |-> invocations, tags |-> tags, ctx |-> ctx, ret |-> ret]

Quiet(op) == Outcome(op, "none", "none", <<>>, {}, Undefined, Undefined)

----------------------------------------------------------------------------
(* Initial state *)

Init ==
  /\ \E keys \in Layouts, c \in Contents :
        parent = [keys |-> keys, mdast |-> Directive(c), selection |-> "none"]
  /\ mdastNode = NullNode
  /\ mounted = FALSE
  /\ block = FALSE
  /\ editorRoot = <<>>
  /\ ev = Quiet("init")

----------------------------------------------------------------------------
(* Actions *)

\* first render of NestedLexicalEditor plus its effects
Mount ==
  /\ ~mounted
  /\ getNodeByKey(parent, OwnerKey) # NullKey
  /\ \E hasProvider \in BOOLEAN, b \in BOOLEAN :
       LET context == IF hasProvider THEN ContextValue(parent.mdast) ELSE Undefined
           c == useNestedEditorContext(context)
       IN  IF c.error # "none"
             THEN /\ ev' = Outcome("mount", c.error, "none", <<>>, {}, context, c.value)
                  /\ UNCHANGED <<parent, mdastNode, mounted, block, editorRoot>>
             ELSE /\ mounted' = TRUE
                  /\ block' = b
                  /\ mdastNode' = c.value.mdastNode
                  /\ editorRoot' = ImportEffect(<<>>, getContent(c.value.mdastNode), b)
                  /\ ev' = Outcome("mount", "none", "none", <<>>, {}, context, c.value)
                  /\ UNCHANGED parent

Unmount ==
  /\ mounted
  /\ mounted' = FALSE
  /\ editorRoot' = <<>>
  /\ mdastNode' = NullNode
  /\ ev' = Quiet("unmount")
  /\ UNCHANGED <<parent, block>>

\* the `block` prop flips: the import effect re-runs (deps: editor, block, importVisitors)
SetBlock ==
  /\ mounted
  /\ block' = ~block
  /\ editorRoot' = ImportEffect(editorRoot, getContent(mdastNode), ~block)
  /\ ev' = Quiet("import")
  /\ UNCHANGED <<parent, mdastNode, mounted>>

\* the importVisitors emitter value changes: the import effect re-runs
VisitorsChange ==
  /\ mounted
  /\ editorRoot' = ImportEffect(editorRoot, getContent(mdastNode), block)
  /\ ev' = Quiet("import")
  /\ UNCHANGED <<parent, mdastNode, mounted, block>>

\* the host replaces the owning node's content; the component re-renders,
\* the import effect does not re-run (content is not among its deps)
ContentChange ==
  /\ getNodeByKey(parent, OwnerKey) # NullKey
  /\ \E c \in Contents :
       /\ c # getContent(parent.mdast)
       /\ parent' = [parent EXCEPT !.mdast = Directive(c)]
       /\ mdastNode' = IF mounted THEN Rerender(parent', mdastNode) ELSE mdastNode
  /\ ev' = Quiet("contentChange")
  /\ UNCHANGED <<mounted, block, editorRoot>>

Blur ==
  /\ mounted
  /\ LET h == BlurHandler(editorRoot, mdastNode, block)
         u == IF h.invocations = <<>>
                THEN [parent |-> parent, tags |-> {}, error |-> h.error]
                ELSE updateMdastNode(parent, OwnerKey, h.invocations[1])
     IN  /\ parent' = u.parent
         /\ mdastNode' = Rerender(u.parent, mdastNode)
         /\ ev' = Outcome("blur", u.error, "true", h.invocations, u.tags, Undefined, Undefined)
  /\ UNCHANGED <<mounted, block, editorRoot>>

Backspace ==
  /\ mounted
  /\ IF BackspaceRemoves(innerText(editorRoot))
       THEN LET r == removeNode(parent, OwnerKey)
            IN  /\ parent' = r.parent
                /\ ev' = Outcome("backspace", r.error, "true", <<>>, {}, Undefined, Undefined)
                /\ UNCHANGED editorRoot
       ELSE /\ editorRoot' = DefaultBackspace(editorRoot)
            /\ ev' = Outcome("backspace", "none", "false", <<>>, {}, Undefined, Undefined)
            /\ UNCHANGED parent
  /\ UNCHANGED <<mdastNode, mounted, block>>

\* removeNode() called from outside the backspace shortcut (e.g. a delete button)
RemoveButton ==
  /\ mounted
  /\ LET r == removeNode(parent, OwnerKey)
     IN  /\ parent' = r.parent
         /\ ev' = Outcome("remove", r.error, "none", <<>>, {}, Undefined, Undefined)
  /\ UNCHANGED <<mdastNode, mounted, block, editorRoot>>

\* number of typed text nodes the child editor holds
RECURSIVE TypedCount(_)
TypedCount(root) ==
  IF root = <<>> THEN 0
  ELSE Cardinality({j \in 1..Len(Head(root).kids) : Head(root).kids[j] = LText(TypedText)})
       + TypedCount(Tail(root))

\* typing into a top-level paragraph of the child editor
InsertText ==
  /\ mounted
  /\ TypedCount(editorRoot) < MaxTyped
  /\ \E i \in 1..Len(editorRoot) :
       /\ editorRoot[i].ltype = "paragraph"
       /\ editorRoot' =
            [editorRoot EXCEPT ![i].kids = Append(editorRoot[i].kids, LText(TypedText))]
  /\ ev' = Quiet("edit")
  /\ UNCHANGED <<parent, mdastNode, mounted, block>>

\* Enter at the end of the child editor
InsertParagraph ==
  /\ mounted
  /\ Len(editorRoot) < MaxTop
  /\ editorRoot' = Append(editorRoot, LParagraph(<<>>))
  /\ ev' = Quiet("edit")
  /\ UNCHANGED <<parent, mdastNode, mounted, block>>

\* deleting a selected top-level node; the inline paragraph is kept
DeleteTopLevel ==
  /\ mounted
  /\ Len(editorRoot) > (IF block THEN 0 ELSE 1)
  /\ editorRoot' = SubSeq(editorRoot, 1, Len(editorRoot) - 1)
  /\ ev' = Quiet("edit")
  /\ UNCHANGED <<parent, mdastNode, mounted, block>>

\* a custom editor component calls one of the hooks while rendering, inside or
\* outside a provider
UseContext ==
  /\ ~mounted
  /\ \E hasProvider \in BOOLEAN :
       LET context == IF hasProvider THEN ContextValue(parent.mdast) ELSE Undefined
           c == useNestedEditorContext(context)
       IN  ev' = Outcome("useNestedEditorContext", c.error, "none", <<>>, {}, context, c.value)
  /\ UNCHANGED <<parent, mdastNode, mounted, block, editorRoot>>

UseUpdater ==
  /\ ~mounted
  /\ \E hasProvider \in BOOLEAN :
       LET context == IF hasProvider THEN ContextValue(parent.mdast) ELSE Undefined
           c == useMdastNodeUpdater(context)
       IN  ev' = Outcome("useMdastNodeUpdater", c.error, "none", <<>>, {}, context, c.value)
  /\ UNCHANGED <<parent, mdastNode, mounted, block, editorRoot>>

UseRemove ==
  /\ ~mounted
  /\ \E hasProvider \in BOOLEAN :
       LET context == IF hasProvider THEN ContextValue(parent.mdast) ELSE Undefined
           c == useLexicalNodeRemove(context)
       IN  ev' = Outcome("useLexicalNodeRemove", c.error, "none", <<>>, {}, context, c.value)
  /\ UNCHANGED <<parent, mdastNode, mounted, block, editorRoot>>

Next ==
  \/ Mount
  \/ Unmount
  \/ SetBlock
  \/ VisitorsChange
  \/ ContentChange
  \/ Blur
  \/ Backspace
  \/ RemoveButton
  \/ InsertText
  \/ InsertParagraph
  \/ DeleteTopLevel
  \/ UseContext
  \/ UseUpdater
  \/ UseRemove

Spec == Init /\ [][Next]_vars

----------------------------------------------------------------------------
(* Type invariant *)

TypeOK ==
  /\ mounted \in BOOLEAN
  /\ block \in BOOLEAN
  /\ parent.selection \in {"none", "next", "prev", "root"}
  /\ ev.error \in {"none", "Error", "TypeError"}
  /\ Len(ev.invocations) <= 1

----------------------------------------------------------------------------
(* Properties *)

OwnerPresent(p) == \E i \in 1..Len(p.keys) : p.keys[i] = OwnerKey

LexicalOf(children) == [i \in 1..Len(children) |-> ImportNode(children[i])]

\* what a fresh import of `content` leaves in an empty child editor
ImportOf(content, isBlock) ==
  IF isBlock
    THEN IF content = <<>> THEN <<LParagraph(<<>>)>> ELSE LexicalOf(content)
    ELSE <<LParagraph(LexicalOf(content))>>

ImportStep == mounted' /\ (ev'.op = "import" \/ (ev'.op = "mount" /\ ev'.error = "none"))

HasTyped(children) == \E i \in 1..Len(children) : children[i] = Text(TypedText)

\* C1 (as stated): on each change to the input content the adapter clears the
\* child surface and re-imports, so the child holds the import of the most
\* recent input content.
C1_ReimportOnContentChange ==
  [][(ev'.op = "contentChange" /\ mounted')
       => editorRoot' = ImportOf(getContent(mdastNode'), block')]_vars

\* C1 (amended): on mount and on each change of the block flag or of the import
\* visitors the child is cleared and holds exactly the import of the content
\* current at that moment; a change of the input content alone re-imports
\* nothing and leaves the child surface as it was.
C1_ReimportOnMountOrFlag ==
  [][/\ ImportStep => editorRoot' = ImportOf(getContent(mdastNode'), block')
     /\ (ev'.op = "contentChange" /\ mounted')
          => (editorRoot' = editorRoot /\ mdastNode' = parent'.mdast)]_vars

C1_Witness ==
  /\ mounted /\ ev.op = "import" /\ block
  /\ Len(getContent(mdastNode)) = 1
  /\ editorRoot = LexicalOf(getContent(mdastNode))

\* C2: a blur invokes the updater exactly once, with the owning mdast node
\* rebuilt around the content exported from the child's current state, and the
\* parent update carries the history-push tag; a present owning node receives
\* that node.
C2_BlurInvokesUpdaterOnce ==
  [][(ev'.op = "blur") =>
       /\ Len(ev'.invocations) = 1
       /\ ev'.invocations[1] = [mdastNode EXCEPT !.children = ev'.invocations[1].children]
       /\ LexicalOf(ev'.invocations[1].children)
            = (IF block THEN editorRoot ELSE editorRoot[1].kids)
       /\ ev'.tags = {"history-push"}
       /\ OwnerPresent(parent) => parent'.mdast = ev'.invocations[1]]_vars

C2_Witness ==
  /\ ev.op = "blur"
  /\ Len(ev.invocations) = 1
  /\ HasTyped(ev.invocations[1].children)
  /\ "history-push" \in ev.tags
  /\ parent.mdast = ev.invocations[1]

\* C3: when the owning node is no longer in the parent, a blur raises no error
\* and leaves the parent state unchanged.
C3_StaleBlurIsNoOp ==
  [][(ev'.op = "blur" /\ ~OwnerPresent(parent))
       => (parent' = parent /\ ev'.error = "none")]_vars

C3_Witness ==
  /\ ev.op = "blur" /\ ~OwnerPresent(parent)
  /\ Len(ev.invocations) = 1
  /\ ev.error = "none"

\* C4: when the owning node is no longer in the parent, the removal operation
\* is skipped silently: no error is raised and the parent state is unchanged.
C4_StaleRemovalIsSilent ==
  [][((ev'.op = "remove" \/ (ev'.op = "backspace" /\ ev'.handled = "true"))
        /\ ~OwnerPresent(parent))
       => (parent' = parent /\ ev'.error = "none")]_vars

\* C5: a backspace in a child whose visible text is a single newline is reported
\* as handled, and removes a present owning node from the parent after moving
\* the parent selection to its next sibling; with any other visible text the
\* handler reports not handled and the parent is unchanged.
C5_BackspaceAtEmptyRemoves ==
  [][(ev'.op = "backspace") =>
       IF innerText(editorRoot) = "\n"
         THEN /\ ev'.handled = "true"
              /\ OwnerPresent(parent) =>
                   /\ ~OwnerPresent(parent')
                   /\ ev'.error = "none"
                   /\ \A i \in 1..Len(parent.keys) :
                        /\ parent.keys[i] # OwnerKey
                             => \E j \in 1..Len(parent'.keys) : parent'.keys[j] = parent.keys[i]
                        /\ (parent.keys[i] = OwnerKey /\ i < Len(parent.keys))
                             => parent'.selection = parent.keys[i + 1]
         ELSE /\ ev'.handled = "false"
              /\ parent' = parent]_vars

C5_Witness ==
  /\ ev.op = "backspace" /\ ev.handled = "true" /\ ev.error = "none"
  /\ ~OwnerPresent(parent)
  /\ parent.keys = <<"next">>
  /\ parent.selection = "next"

\* C6 (as stated): a blur right after an import hands the updater a content
\* array equal to the imported one, in inline and in block mode.
C6_RoundTrip ==
  [][(ev.op \in {"mount", "import"} /\ mounted /\ ev'.op = "blur")
       => (Len(ev'.invocations) = 1
           /\ ev'.invocations[1].children = getContent(mdastNode))]_vars

\* C6 (amended): a blur right after an import hands the updater a content array
\* equal to the imported one, except that an empty content array imported in
\* block mode comes back as the single empty paragraph substituted on import.
C6_RoundTripButEmptyBlock ==
  [][(ev.op \in {"mount", "import"} /\ mounted /\ ev'.op = "blur")
       => (Len(ev'.invocations) = 1
           /\ ev'.invocations[1].children =
                (IF block /\ getContent(mdastNode) = <<>>
                   THEN <<Paragraph(<<>>)>>
                   ELSE getContent(mdastNode)))]_vars

C6_Witness ==
  /\ ev.op = "blur" /\ ~block
  /\ Len(ev.invocations) = 1
  /\ Len(ev.invocations[1].children) = 2
  /\ editorRoot = <<LParagraph(LexicalOf(ev.invocations[1].children))>>
  /\ ~HasTyped(ev.invocations[1].children)

\* C7: after an import in block mode the child holds exactly one empty paragraph
\* when the content array is empty, and otherwise one node per content node and
\* no added paragraph.
C7_EmptyBlockSubstitution ==
  (mounted /\ block /\ ev.op \in {"mount", "import"}) =>
     IF getContent(mdastNode) = <<>>
       THEN editorRoot = <<LParagraph(<<>>)>>
       ELSE /\ Len(editorRoot) = Len(getContent(mdastNode))
            /\ exportLexicalTreeToMdast(editorRoot).children = getContent(mdastNode)

C7_Witness ==
  /\ mounted /\ block /\ ev.op = "import"
  /\ getContent(mdastNode) = <<>>
  /\ editorRoot = <<LParagraph(<<>>)>>

\* C8: mounts, imports, child edits and backspaces in a non-empty child leave
\* the parent state unchanged; among the adapter's steps only a blur changes the
\* mdast node held by the owning node.
C8_ExportOnlyOnBlur ==
  [][/\ (\/ ev'.op \in {"mount", "import", "edit"}
         \/ (ev'.op = "backspace" /\ innerText(editorRoot) # "\n"))
          => parent' = parent
     /\ (ev'.op # "contentChange" /\ OwnerPresent(parent') /\ parent'.mdast # parent.mdast)
          => ev'.op = "blur"]_vars

C8_Witness ==
  /\ mounted /\ ev.op = "edit" /\ ~block
  /\ OwnerPresent(parent)
  /\ Len(editorRoot) = 1
  /\ \E i \in 1..Len(editorRoot[1].kids) : editorRoot[1].kids[i] = LText(TypedText)
  /\ ~HasTyped(getContent(parent.mdast))

HookOps == {"useNestedEditorContext", "useMdastNodeUpdater", "useLexicalNodeRemove", "mount"}

\* C9: the context hook, the updater hook, the removal hook and the render of
\* the nested editor all throw when no context value is present (and the editor
\* does not mount); with a context value present none throws and the value read
\* is the supplied one.
C9_ContextOutsideProviderThrows ==
  (ev.op \in HookOps) =>
     IF ev.ctx = Undefined
       THEN ev.error = "Error" /\ ~mounted
       ELSE ev.error = "none" /\ ev.ret = ev.ctx /\ ev.ret.mdastNode = parent.mdast

C9_Witness ==
  /\ ev.op = "useMdastNodeUpdater"
  /\ ev.ctx = Undefined
  /\ ev.error = "Error"

\* C10: in inline mode a blur is defined only with at least one top-level node
\* in the child and hands the updater exactly the children of the first one,
\* whatever further top-level nodes hold; in block mode it hands over every
\* top-level node.
C10_InlineExportsFirstNodeOnly ==
  [][(ev'.op = "blur") =>
       IF block
         THEN /\ ev'.error = "none"
              /\ Len(ev'.invocations[1].children) = Len(editorRoot)
              /\ \A i \in 1..Len(editorRoot) :
                   ImportNode(ev'.invocations[1].children[i]) = editorRoot[i]
         ELSE /\ (ev'.error = "none") <=> (Len(editorRoot) >= 1)
              /\ Len(editorRoot) >= 1 =>
                   /\ Len(ev'.invocations[1].children) = Len(Head(editorRoot).kids)
                   /\ \A i \in 1..Len(Head(editorRoot).kids) :
                        ImportNode(ev'.invocations[1].children[i]) = Head(editorRoot).kids[i]]_vars

C10_Witness ==
  /\ ev.op = "blur" /\ ~block
  /\ Len(editorRoot) = 2
  /\ editorRoot[2].kids = <<LText(TypedText)>>
  /\ Len(ev.invocations) = 1
  /\ ~HasTyped(ev.invocations[1].children)
  /\ Len(ev.invocations[1].children) = 1

====
